---------------------------- MODULE Spec2Model ----------------------------
(***************************************************************************)
(* conda-s3-sync (src/conda_s3_sync/main.py): synchronisation of conda     *)
(* environments with an S3 prefix by last-modified time.                   *)
(*                                                                         *)
(* Six specifications share the variables below:                           *)
(*   Spec         runs of CondaS3Sync.sync_all over a local machine and a  *)
(*                bucket, in the default configuration;                    *)
(*   SpecDownload the same over buckets that hold other objects too;       *)
(*   SpecConfig   the same with a path filter, with the root environment   *)
(*                and with installation paths that share a base name;      *)
(*   SpecRetry    one call of CondaS3Sync._run_conda_provision_retry from  *)
(*                update_conda_env, one step per iteration of its while    *)
(*                loop, and the end of update_conda_env after it;          *)
(*   SpecUpdate   direct calls of CondaS3Sync.update_conda_env, with and   *)
(*                without a base path;                                     *)
(*   SpecRewrite  replace_conda_dependency applied to its own result.      *)
(*                                                                         *)
(* Strings that the code takes apart (dependency identifiers, file names)  *)
(* are sequences of one-character strings.  Points in time are integers    *)
(* counting ticks of 1/TicksPerSec second since the epoch (UTC).           *)
(***************************************************************************)
EXTENDS Integers, Sequences, FiniteSets, TLC

\* Python's None where a string, a path, a tuple or a list is expected (all of
\* them falsy, like None)
None == << >>

\* ------------------------------------------------------------------------
\* Bounds of the model
\* ------------------------------------------------------------------------

\* longest bad_deps list the provisioning tool reports
MaxDeps == 2
\* cap on the invocations of one _run_conda_provision_retry call (the loop
\* itself has no cap: main.py:150)
MaxAttempts == 4

\* ------------------------------------------------------------------------
\* Strings
\* ------------------------------------------------------------------------

\* s.startswith(p)
StartsWith(s, p) == Len(s) >= Len(p) /\ SubSeq(s, 1, Len(p)) = p

\* position of the first "=" of s, Len(s) + 1 when there is none
FirstEq(s) ==
    IF \E i \in 1..Len(s) : s[i] = "="
    THEN CHOOSE i \in 1..Len(s) : s[i] = "=" /\ \A j \in 1..(i - 1) : s[j] # "="
    ELSE Len(s) + 1

\* a plausible slip: the guard keyed on the whole identifier, version included
DepNameWhole(dep) == dep

\* dep.split('=')[0]  (main.py:162)
DepName(dep) == SubSeq(dep, 1, FirstEq(dep) - 1)

\* the identifiers the provisioning tool may name in bad_deps
DepIds == { <<"f", "=", "1">>, <<"f", "=", "2">>, <<"g", "=", "1">>, <<"g">> }

BareNames == { DepName(d) : d \in DepIds }

\* the scalars of the descriptor documents of the model
Scalars == DepIds \cup BareNames \cup { <<"f", "g", "=", "1">>, <<"e">> }

\* ------------------------------------------------------------------------
\* Descriptor documents (what yaml.safe_load returns): tagged nodes
\* ------------------------------------------------------------------------

Str(s) == [t |-> "str", s |-> s]
List(items) == [t |-> "list", items |-> items]
Dict(kv) == [t |-> "dict", kv |-> kv]
Other(v) == [t |-> "other", v |-> v]

RECURSIVE ReplaceEveryString(_, _, _)
\* a plausible slip: the predicate not consulted, every string replaced
ReplaceEveryString(data, check, replace) ==
    IF data.t = "dict"
    THEN Dict([k \in DOMAIN data.kv |->
                  ReplaceEveryString(data.kv[k], check, replace)])
    ELSE IF data.t = "list"
    THEN List([i \in DOMAIN data.items |->
                  ReplaceEveryString(data.items[i], check, replace)])
    ELSE IF data.t = "str"
    THEN replace
    ELSE data

RECURSIVE replace_conda_dependency(_, _, _)
\* main.py:49-59; check is the predicate, given by the set of strings of
\* which it holds
replace_conda_dependency(data, check, replace) ==
    IF data.t = "dict"
    THEN Dict([k \in DOMAIN data.kv |->
                  replace_conda_dependency(data.kv[k], check, replace)])
    ELSE IF data.t = "list"
    THEN List([i \in DOMAIN data.items |->
                  replace_conda_dependency(data.items[i], check, replace)])
    ELSE IF data.t = "str" /\ data.s \in check
    THEN replace
    ELSE data

\* lambda s: s.startswith(dep_name + '=')  (main.py:168)
PinCheck(dep_name) == { s \in Scalars : StartsWith(s, dep_name \o <<"=">>) }

EnvDoc(deps, pip) ==
    Dict([k \in {"name", "dependencies"} |->
            IF k = "name" THEN Str(<<"e">>)
            ELSE List(deps \o << Dict([p \in {"pip"} |-> List(pip)]) >>)])

\* the descriptors a call may be given
InitDocs ==
    { EnvDoc(<< Str(<<"f", "=", "1">>), Str(<<"g", "=", "1">>) >>, << >>),
      EnvDoc(<< Str(<<"f", "g", "=", "1">>), Str(<<"g">>) >>,
             << Str(<<"f", "=", "2">>) >>),
      EnvDoc(<< Other(1) >>, << Str(<<"g", "=", "1">>) >>) }


\* ------------------------------------------------------------------------
\* State
\* ------------------------------------------------------------------------

VARIABLES
    \* the local machine and the bucket
    installed,       \* conda info: info['envs'], the installation paths
    history,         \* path -> mtime of <path>/conda-meta/history, per dir on disk
    bucket,          \* key -> object (Metadata, last_modified) or NoObj
    tz,              \* UTC offset of the machine's local time zone, in seconds
    \* CondaS3Sync's configuration
    path_filter,     \* None, or <<the set of paths the regular expression matches>>
    include_root,    \* self.include_root
    \* CondaS3Sync
    conda_info,      \* self._conda_info
    cmds,            \* the conda env create/update commands issued so far
    \* sync_all
    pc, run, prev, next_tmp, workspaces, local_tmp_dir, remote_tmp_dir,
    local_envs, remote_envs, zipped, log, error,
    downloaded,      \* the keys download_file was called for in this run
    \* _run_conda_provision_retry
    rpc,             \* "idle", "attempt" (at the top of the loop), "done", "raised"
    kwargs,          \* env_file, env_path, env_name, prune, update of the call
    env_file,        \* the document in the descriptor file
    failed_deps,     \* failed_deps
    failed_before,   \* failed_deps as it was when the last attempt ran
    calls,           \* the outcome of each _run_conda_provision so far
    raised,          \* the exception that left the call, or None
    rw,              \* a replace_conda_dependency computation: its arguments
                     \* and the results of its successive applications
    upc              \* update_conda_env around its call of line 198: "idle",
                     \* "call" (inside it), "returned", "raised"

config == <<path_filter, include_root>>
world == <<installed, history, bucket, tz, config>>
syncvars == <<pc, run, prev, next_tmp, workspaces, local_tmp_dir, remote_tmp_dir,
              local_envs, remote_envs, downloaded, zipped, log, error>>
retryvars == <<rpc, kwargs, env_file, failed_deps, failed_before, calls, raised>>
vars == <<world, conda_info, cmds, syncvars, retryvars, rw, upc>>

\* ------------------------------------------------------------------------
\* _run_conda_provision and _run_conda_provision_retry
\* ------------------------------------------------------------------------

RECURSIVE SeqsUpTo(_, _)
\* the sequences over S of length at most n
SeqsUpTo(S, n) ==
    IF n = 0 THEN { << >> }
    ELSE LET shorter == SeqsUpTo(S, n - 1)
         IN shorter \cup { Append(q, x) : q \in shorter, x \in S }

\* no exception has left the call
NoError == [type |-> "none", bad_deps |-> << >>]

\* main.py:125-130: the command line of one invocation: conda env <mode>
\* --json -f <f> [-p <p>] [-n <n>]; an option that is not passed is None.
\* The parameter prune is read nowhere in the function: no line adds
\* --prune to cmd, whatever kw.prune and kw.update are.
CondaCmd(file, kw) ==
    [mode |-> IF kw.update THEN "update" ELSE "create",
     f |-> file,
     p |-> IF kw.env_path # None THEN kw.env_path ELSE None,
     n |-> IF kw.env_name # None /\ (~kw.update \/ kw.env_path = None)
           THEN kw.env_name ELSE None,
     prune |-> FALSE]

RECURSIVE RepairLoop(_, _, _, _)
\* main.py:161-169: the for loop over e.bad_deps from position i on, with the
\* failed_deps and the yaml_data reached so far; raise when a name repeats
RepairLoop(bad_deps, i, failed, data) ==
    IF i > Len(bad_deps)
    THEN [raise |-> FALSE, failed |-> failed, data |-> data]
    ELSE LET dep_name == DepName(bad_deps[i])
         IN IF dep_name \in failed
            THEN [raise |-> TRUE, failed |-> failed, data |-> data]
            ELSE RepairLoop(bad_deps, i + 1, failed \cup {dep_name},
                     replace_conda_dependency(data, PinCheck(dep_name), Str(dep_name)))

\* main.py:142-146, 151-153: the tool exits 0, the loop breaks
AttemptSucceeds ==
    /\ rpc = "attempt" /\ Len(calls) < MaxAttempts
    /\ calls' = Append(calls, [kind |-> "ok", bad_deps |-> << >>])
    /\ cmds' = Append(cmds, CondaCmd(kwargs.env_file, kwargs))
    /\ rpc' = "done"
    /\ failed_before' = failed_deps
    /\ UNCHANGED <<kwargs, env_file, failed_deps, raised>>
    /\ UNCHANGED <<world, conda_info, syncvars, rw, upc>>

\* a plausible slip: the fatal error logged and the loop going on
AfterFatalRetried == "attempt"

\* main.py:174-176: CondaError is logged and raised again, out of the loop
AfterFatal == "raised"

\* main.py:146, 174-176: the tool fails without a bad_deps list
AttemptFatal ==
    /\ rpc = "attempt" /\ Len(calls) < MaxAttempts
    /\ calls' = Append(calls, [kind |-> "fatal", bad_deps |-> << >>])
    /\ cmds' = Append(cmds, CondaCmd(kwargs.env_file, kwargs))
    /\ rpc' = AfterFatal
    /\ raised' = [type |-> "CondaError", bad_deps |-> << >>]
    /\ failed_before' = failed_deps
    /\ UNCHANGED <<kwargs, env_file, failed_deps>>
    /\ UNCHANGED <<world, conda_info, syncvars, rw, upc>>

\* a plausible slip: the file written inside the for loop, after each repair
FileWrittenInLoop(before, partial) == partial

\* main.py:159-173: the descriptor file when the for loop raises: seek, dump
\* and truncate (lines 171-173) come after the loop and are not reached;
\* before is the document read, partial the yaml_data repaired so far
FileOnRaise(before, partial) == before

\* main.py:143-144, 154-173: CondaDependenciesError; the descriptor is
\* repaired and written back, or the error is raised again on a repeated name
AttemptBadDeps(bad_deps) ==
    /\ rpc = "attempt" /\ Len(calls) < MaxAttempts
    /\ calls' = Append(calls, [kind |-> "deps", bad_deps |-> bad_deps])
    /\ cmds' = Append(cmds, CondaCmd(kwargs.env_file, kwargs))
    /\ failed_before' = failed_deps
    /\ LET r == RepairLoop(bad_deps, 1, failed_deps, env_file)
       IN /\ failed_deps' = r.failed
          /\ IF r.raise
             THEN /\ rpc' = "raised"
                  /\ raised' = [type |-> "CondaDependenciesError",
                                bad_deps |-> bad_deps]
                  /\ env_file' = FileOnRaise(env_file, r.data)
             ELSE /\ rpc' = "attempt"
                  /\ raised' = raised
                  /\ env_file' = r.data
    /\ UNCHANGED kwargs
    /\ UNCHANGED <<world, conda_info, syncvars, rw, upc>>


\* ------------------------------------------------------------------------
\* Names, paths and file names
\* ------------------------------------------------------------------------

\* A path is the pair os.path.split gives: <<parent, base name>>.
Basename(path) == path[2]
Join(parent, base) == <<parent, base>>

YmlExt == <<".", "y", "m", "l">>
YamlExt == <<".", "y", "a", "m", "l">>

\* os.path.splitext: the extension starts at the last dot that has a
\* character other than a dot before it
SplitExt(fname) ==
    LET dots == { i \in 1..Len(fname) :
                    fname[i] = "." /\ \E j \in 1..(i - 1) : fname[j] # "." }
    IN IF dots = {} THEN <<fname, << >> >>
       ELSE LET d == CHOOSE i \in dots : \A j \in dots : j <= i
            IN <<SubSeq(fname, 1, d - 1), SubSeq(fname, d, Len(fname))>>

\* main.py:111-117
GetEnvNameForPath(path) ==
    LET parts == SplitExt(Basename(path))
    IN IF parts[2] \notin {YmlExt, YamlExt} THEN None ELSE parts[1]

\* main.py:119-121, over the listing info['envs']
GetEnvPathForName(envs, env_name) ==
    IF \E i \in 1..Len(envs) : Basename(envs[i]) = env_name
    THEN envs[CHOOSE i \in 1..Len(envs) :
                /\ Basename(envs[i]) = env_name
                /\ \A j \in 1..(i - 1) : Basename(envs[j]) # env_name]
    ELSE None

\* the environment names of the model
Names == { <<"a">>, <<"b">> }
\* the name get_conda_envs gives the root environment (main.py:101)
RootName == <<"r", "o", "o", "t">>
\* info['root_prefix']
RootPrefix == << <<"opt">>, <<"conda">> >>

\* the directory conda creates a named environment in
EnvsDir == <<"envs">>
\* self.s3_path
S3Path == <<"p">>

\* the object keys of the model: <prefix>/<name>.yml and <prefix>/<name>.yaml
Keys == { Join(S3Path, n \o e) : n \in Names, e \in {YmlExt, YamlExt} }

\* UTF-8 codes of the characters of the keys
Code(c) ==
    CASE c = "." -> 46 [] c = "/" -> 47 [] c = "a" -> 97 [] c = "b" -> 98
      [] c = "l" -> 108 [] c = "m" -> 109 [] c = "o" -> 111 [] c = "p" -> 112
      [] c = "q" -> 113 [] c = "r" -> 114 [] c = "s" -> 115 [] c = "t" -> 116
      [] c = "x" -> 120 [] c = "y" -> 121

\* the key as the string S3 stores
KeyString(key) == key[1] \o <<"/">> \o key[2]

\* s < t in UTF-8 binary order
LexLess(s, t) ==
    \E i \in 1..(Len(t)) :
        /\ \A j \in 1..(i - 1) : j <= Len(s) /\ s[j] = t[j]
        /\ (i > Len(s) \/ Code(s[i]) < Code(t[i]))

RECURSIVE ListObjects(_)
\* bucket.objects.all() over the keys K: S3 lists keys in UTF-8 binary order
ListObjects(K) ==
    IF K = {} THEN << >>
    ELSE LET first == CHOOSE k \in K :
                         \A o \in K \ {k} : LexLess(KeyString(k), KeyString(o))
         IN <<first>> \o ListObjects(K \ {first})

\* ------------------------------------------------------------------------
\* Time
\* ------------------------------------------------------------------------

\* ticks per second: the sub-second resolution of a file's mtime
TicksPerSec == 2
\* the marker files and stored attributes of the initial states lie in 0..MaxTime
MaxTime == 1
\* sync_all is run at most MaxRuns times in a row
MaxRuns == 2

Times == 0..MaxTime
\* S3 keeps an object's own last_modified in whole seconds
S3Times == { t \in Times : t % TicksPerSec = 0 }
\* the UTC offsets of the machine's time zone (seconds east of UTC)
TzOffsets == { -1, 0, 1 }

\* datetime.isoformat('T') of a UTC datetime: <<seconds, ticks, offset>>, the
\* fraction left out when it is zero
IsoFormat(t) ==
    IF t % TicksPerSec = 0 THEN <<t \div TicksPerSec, 0>>
    ELSE <<t \div TicksPerSec, t % TicksPerSec, 0>>

\* iso8601.parse_date
ParseDate(str) ==
    IF Len(str) = 2 THEN (str[1] - str[2]) * TicksPerSec
    ELSE (str[1] - str[3]) * TicksPerSec + str[2]

\* main.py:211: time.mktime(last_modified.timetuple()); timetuple() keeps the
\* UTC wall clock down to the second, mktime reads it as local time
Mktime(dt, offset) == (dt \div TicksPerSec) * TicksPerSec - offset * TicksPerSec


\* ------------------------------------------------------------------------
\* Dictionaries and zip_dicts_by_key
\* ------------------------------------------------------------------------

\* d.get(key)
DictGet(d, key) == IF key \in DOMAIN d THEN d[key] ELSE None

\* d[key] = value
DictSet(d, key, value) ==
    [k \in DOMAIN d \cup {key} |-> IF k = key THEN value ELSE d[k]]

\* the orders in which a set may be iterated
Orders(S) ==
    { q \in [1..Cardinality(S) -> S] : \A i, j \in DOMAIN q : q[i] = q[j] => i = j }

\* a plausible slip: the keys of the first dictionary only
ZipFirstKeysOnly(d1, d2) ==
    { [i \in DOMAIN order |-> <<order[i], <<DictGet(d1, order[i]),
                                           DictGet(d2, order[i])>> >>] :
        order \in Orders(DOMAIN d1) }

\* main.py:27-34 for two dictionaries: what the generator may yield, one
\* sequence per iteration order of the set of keys
zip_dicts_by_key(d1, d2) ==
    { [i \in DOMAIN order |-> <<order[i], <<DictGet(d1, order[i]),
                                           DictGet(d2, order[i])>> >>] :
        order \in Orders(DOMAIN d1 \cup DOMAIN d2) }

\* ------------------------------------------------------------------------
\* The local and the remote collection
\* ------------------------------------------------------------------------

\* main.py:74-83: what get_conda_info returns: the cached listing, or the
\* tool's listing when the cache is None.  The cache holds None or <<info>>.
get_conda_info ==
    IF conda_info = None THEN [envs |-> installed, root_prefix |-> RootPrefix]
    ELSE conda_info[1]

\* main.py:85-87
IsEnvAccepted(path) == path_filter = None \/ path \notin path_filter[1]

RECURSIVE AcceptedEnvs(_, _)
\* main.py:91-97: the loop of get_conda_envs from position i on
AcceptedEnvs(envs, i) ==
    IF i > Len(envs) THEN << >>
    ELSE IF ~IsEnvAccepted(envs[i]) THEN AcceptedEnvs(envs, i + 1)
    ELSE << <<Basename(envs[i]), envs[i]>> >> \o AcceptedEnvs(envs, i + 1)

\* main.py:89-101: the (env_name, path) pairs get_conda_envs yields, and
\* whether it then raises: line 100 reads the loop variable path, which is
\* unbound when info['envs'] is empty
GetCondaEnvs(info) ==
    [pairs |-> AcceptedEnvs(info.envs, 1)
                \o (IF include_root /\ info.envs # << >>
                    THEN << <<RootName, info.root_prefix>> >> ELSE << >>),
     raise |-> include_root /\ info.envs = << >>]

\* main.py:214-218: the marker file's mtime as a UTC datetime
GetEnvLastModified(path) == history[path]

RECURSIVE ExportLoop(_, _, _, _)
\* main.py:224-229: the loop of export_conda_envs from position i on
ExportLoop(pairs, i, tmp_dir, envs) ==
    IF i > Len(pairs) THEN envs
    ELSE LET name == pairs[i][1]
             path == pairs[i][2]
             export_path == Join(tmp_dir, name \o YmlExt)
         IN ExportLoop(pairs, i + 1, tmp_dir,
                       DictSet(envs, name, <<export_path, GetEnvLastModified(path)>>))

MetaKey == "conda-env-last-modified"

\* a plausible slip: the object's own timestamp always
RemoteLastModifiedS3Only(obj) == obj.last_modified

\* main.py:253-261: the custom attribute if there is one, else S3's timestamp
RemoteLastModified(obj) ==
    LET last_modified == DictGet(obj.Metadata, MetaKey)
    IN IF last_modified # None THEN ParseDate(last_modified)
       ELSE obj.last_modified

RECURSIVE DownloadLoopAnyPath(_, _, _, _)
\* a plausible slip: the parent path of the key not compared with the prefix
DownloadLoopAnyPath(listing, i, tmp_dir, envs) ==
    IF i > Len(listing) THEN envs
    ELSE LET key == listing[i]
             env_name == GetEnvNameForPath(key)
         IN IF env_name = None
            THEN DownloadLoopAnyPath(listing, i + 1, tmp_dir, envs)
            ELSE DownloadLoopAnyPath(listing, i + 1, tmp_dir,
                     DictSet(envs, env_name,
                             <<Join(tmp_dir, Basename(key)),
                               RemoteLastModified(bucket[key])>>))

RECURSIVE DownloadedKeys(_, _)
\* main.py:238-251: the keys download_file is called for by the loop of
\* download_remote_envs from position i on
DownloadedKeys(listing, i) ==
    IF i > Len(listing) THEN {}
    ELSE LET key == listing[i]
         IN IF key[1] # S3Path \/ GetEnvNameForPath(key) = None
            THEN DownloadedKeys(listing, i + 1)
            ELSE {key} \cup DownloadedKeys(listing, i + 1)

RECURSIVE DownloadLoop(_, _, _, _)
\* main.py:238-263: the loop of download_remote_envs from position i on
DownloadLoop(listing, i, tmp_dir, envs) ==
    IF i > Len(listing) THEN envs
    ELSE LET key == listing[i]
             env_name == GetEnvNameForPath(key)
         IN IF key[1] # S3Path \/ env_name = None
            THEN DownloadLoop(listing, i + 1, tmp_dir, envs)
            ELSE DownloadLoop(listing, i + 1, tmp_dir,
                     DictSet(envs, env_name,
                             <<Join(tmp_dir, Basename(key)),
                               RemoteLastModified(bucket[key])>>))

\* a plausible slip: a tie pushes
DecideTiePushes(local, remote) ==
    IF local # None /\ remote # None
    THEN IF local[2] >= remote[2] THEN "push" ELSE "pull"
    ELSE IF local # None THEN "push"
    ELSE IF remote # None THEN "pull"
    ELSE "noop"

\* main.py:284-293: push, pull or neither
Decide(local, remote) ==
    IF local # None /\ remote # None
    THEN IF local[2] > remote[2] THEN "push"
         ELSE IF local[2] < remote[2] THEN "pull"
         ELSE "noop"
    ELSE IF local # None THEN "push"
    ELSE IF remote # None THEN "pull"
    ELSE "noop"


\* ------------------------------------------------------------------------
\* update_conda_env
\* ------------------------------------------------------------------------

\* main.py:180-183, 198: update_conda_env raises: ValueError on a file name
\* without a YAML extension, or the error _run_conda_provision_retry raised
UpdateRaises(export_path, outcome) ==
    GetEnvNameForPath(export_path) = None \/ outcome = "raised"

\* a plausible slip: the cache kept across the provisioning write
CacheKept(info) == <<info>>

\* main.py:202-203: the cache is reset after the provisioning call returned
CacheAfterProvision(info) == None

\* main.py:180-200: the keyword arguments update_conda_env gives
\* _run_conda_provision_retry.  The local variable update of lines 185-196
\* is never read: the call passes existing_path is not None.
UpdateKw(export_path, base_path, prune) ==
    LET env_name == GetEnvNameForPath(export_path)
        existing_path == GetEnvPathForName(get_conda_info.envs, env_name)
        env_path == IF existing_path = None /\ base_path = None THEN None
                    ELSE IF existing_path # None THEN existing_path
                    ELSE Join(base_path, env_name)
    IN [env_file |-> export_path, env_path |-> env_path,
        env_name |-> env_name, prune |-> prune,
        update |-> existing_path # None]

\* main.py:198-212: _run_conda_provision_retry has returned: the tool has
\* written the installation at time now, the cache is reset, and the marker
\* file is stamped if last_modified (None or <<datetime>>) is given
Provisioned(kw, last_modified, now) ==
    LET \* where the tool puts the installation
        target == IF kw.env_path # None THEN kw.env_path
                  ELSE Join(EnvsDir, kw.env_name)
        listed == IF \E i \in 1..Len(installed) : installed[i] = target
                  THEN installed ELSE Append(installed, target)
        written == DictSet(history, target, now)
        cleared == CacheAfterProvision(get_conda_info)
        \* get_conda_info of line 205: a fetch if the cache is empty
        after == IF cleared = None
                 THEN [envs |-> listed, root_prefix |-> RootPrefix]
                 ELSE cleared[1]
        stamped == IF kw.env_path # None THEN kw.env_path
                   ELSE GetEnvPathForName(after.envs, kw.env_name)
    IN /\ installed' = listed
       /\ conda_info' = IF kw.env_path = None THEN <<after>> ELSE cleared
       /\ history' = IF last_modified # None
                     THEN DictSet(written, stamped, Mktime(last_modified[1], tz))
                     ELSE written
       /\ UNCHANGED <<bucket, tz, config>>

\* main.py:178-212, the call of line 198 taken as one step.  outcome is how
\* _run_conda_provision_retry ends ("done" or "raised").
UpdateCondaEnv(export_path, base_path, prune, last_modified, outcome, now) ==
    LET kw == UpdateKw(export_path, base_path, prune)
    IN IF kw.env_name = None
       THEN UNCHANGED <<world, conda_info, cmds>>
       ELSE /\ cmds' = Append(cmds, CondaCmd(export_path, kw))
            /\ IF outcome = "raised"
               THEN /\ conda_info' = <<get_conda_info>>
                    /\ UNCHANGED world
               ELSE Provisioned(kw, last_modified, now)

\* ------------------------------------------------------------------------
\* sync_all
\* ------------------------------------------------------------------------

\* tempfile.mkdtemp(): a fresh directory
Mkdtemp == <<"tmp", ToString(next_tmp)>>

\* a plausible slip: the error of one transfer caught, the loop going on
AfterRaiseInLoopCaught == "loop"

\* main.py:269-310: nothing in the try block catches; an exception raised in
\* the loop leaves it for the finally clause
AfterRaiseInLoop == "finally"

\* sync_all may be called: it is not running, and no earlier call raised (an
\* exception out of sync_all ends the process: main.py:361)
CanStart == pc = "idle" /\ prev # "failed" /\ run < MaxRuns

\* main.py:268-270: export_conda_envs returns
ExportCondaEnvs ==
    /\ CanStart
    /\ run' = run + 1
    /\ next_tmp' = next_tmp + 1
    /\ workspaces' = workspaces \cup {Mkdtemp}
    /\ local_tmp_dir' = Mkdtemp
    /\ ~GetCondaEnvs(get_conda_info).raise
    /\ local_envs' = ExportLoop(GetCondaEnvs(get_conda_info).pairs, 1, Mkdtemp, << >>)
    /\ conda_info' = <<get_conda_info>>
    /\ remote_tmp_dir' = None /\ remote_envs' = << >> /\ downloaded' = {}
    /\ zipped' = << >> /\ log' = << >> /\ cmds' = << >> /\ error' = "none"
    /\ pc' = "download"
    /\ UNCHANGED <<world, prev, retryvars, rw, upc>>

\* main.py:221-227: export_conda_envs raises after mkdtemp (conda info or
\* conda env export fails, or a marker file is missing)
ExportCondaEnvsRaises ==
    /\ CanStart
    /\ run' = run + 1
    /\ next_tmp' = next_tmp + 1
    /\ workspaces' = workspaces \cup {Mkdtemp}
    /\ local_tmp_dir' = None /\ local_envs' = << >>
    /\ \E info_loaded \in BOOLEAN :
          conda_info' = IF info_loaded THEN <<get_conda_info>> ELSE conda_info
    /\ remote_tmp_dir' = None /\ remote_envs' = << >> /\ downloaded' = {}
    /\ zipped' = << >> /\ log' = << >> /\ cmds' = << >> /\ error' = "export"
    /\ pc' = "finally"
    /\ UNCHANGED <<world, prev, retryvars, rw, upc>>

\* main.py:99-100, 224: get_conda_envs raises UnboundLocalError in the loop
\* of export_conda_envs, after every accepted environment was exported
ExportCondaEnvsUnbound ==
    /\ CanStart
    /\ run' = run + 1
    /\ next_tmp' = next_tmp + 1
    /\ workspaces' = workspaces \cup {Mkdtemp}
    /\ GetCondaEnvs(get_conda_info).raise
    /\ local_tmp_dir' = None /\ local_envs' = << >>
    /\ conda_info' = <<get_conda_info>>
    /\ remote_tmp_dir' = None /\ remote_envs' = << >> /\ downloaded' = {}
    /\ zipped' = << >> /\ log' = << >> /\ cmds' = << >>
    /\ error' = "UnboundLocalError"
    /\ pc' = "finally"
    /\ UNCHANGED <<world, prev, retryvars, rw, upc>>

\* main.py:271: download_remote_envs returns
DownloadRemoteEnvs ==
    /\ pc = "download"
    /\ next_tmp' = next_tmp + 1
    /\ workspaces' = workspaces \cup {Mkdtemp}
    /\ remote_tmp_dir' = Mkdtemp
    /\ remote_envs' = DownloadLoop(ListObjects(DOMAIN bucket), 1, Mkdtemp, << >>)
    /\ downloaded' = DownloadedKeys(ListObjects(DOMAIN bucket), 1)
    /\ pc' = "zip"
    /\ UNCHANGED <<world, conda_info, cmds, run, prev, local_tmp_dir, local_envs,
                   zipped, log, error, retryvars, rw, upc>>

\* main.py:234-251: download_remote_envs raises after mkdtemp (the listing or
\* a download fails)
DownloadRemoteEnvsRaises ==
    /\ pc = "download"
    /\ next_tmp' = next_tmp + 1
    /\ workspaces' = workspaces \cup {Mkdtemp}
    /\ \E n \in 0..Len(ListObjects(DOMAIN bucket)) :
          downloaded' = DownloadedKeys(SubSeq(ListObjects(DOMAIN bucket), 1, n), 1)
    /\ error' = "download"
    /\ pc' = "finally"
    /\ UNCHANGED <<world, conda_info, cmds, run, prev, local_tmp_dir, local_envs,
                   remote_tmp_dir, remote_envs, zipped, log, retryvars, rw, upc>>

\* main.py:274-275: the generator is started
ZipStart ==
    /\ pc = "zip"
    /\ zipped' \in zip_dicts_by_key(local_envs, remote_envs)
    /\ pc' = "loop"
    /\ UNCHANGED <<world, conda_info, cmds, run, prev, next_tmp, workspaces,
                   local_tmp_dir, remote_tmp_dir, local_envs, remote_envs, downloaded, log,
                   error, retryvars, rw, upc>>

\* the item the for loop is at
Item == zipped[Len(log) + 1]
AtItem == pc = "loop" /\ Len(log) < Len(zipped)
Entry(act, ok) ==
    [name |-> Item[1], local |-> Item[2][1], remote |-> Item[2][2],
     act |-> act, ok |-> ok]

\* main.py:284-293: neither push nor pull
NoOp ==
    /\ AtItem /\ Decide(Item[2][1], Item[2][2]) = "noop"
    /\ log' = Append(log, Entry("noop", TRUE))
    /\ UNCHANGED <<world, conda_info, cmds, pc, run, prev, next_tmp, workspaces,
                   local_tmp_dir, remote_tmp_dir, local_envs, remote_envs, downloaded, zipped,
                   error, retryvars, rw, upc>>

\* the object upload_file stores: main.py:298-303; S3 sets last_modified
Uploaded(local, s3_now) ==
    [Metadata |-> [k \in {MetaKey} |-> IsoFormat(local[2])],
     last_modified |-> s3_now]

\* main.py:295-303: push
Push(s3_now) ==
    /\ AtItem /\ Decide(Item[2][1], Item[2][2]) = "push"
    /\ LET local == Item[2][1]
           key == Join(S3Path, Basename(local[1]))
       IN bucket' = DictSet(bucket, key, Uploaded(local, s3_now))
    /\ log' = Append(log, Entry("push", TRUE))
    /\ UNCHANGED <<installed, history, tz, config, conda_info, cmds, pc, run, prev,
                   next_tmp, workspaces, local_tmp_dir, remote_tmp_dir,
                   local_envs, remote_envs, downloaded, zipped, error, retryvars, rw, upc>>

\* main.py:302: upload_file raises
PushRaises ==
    /\ AtItem /\ Decide(Item[2][1], Item[2][2]) = "push"
    /\ log' = Append(log, Entry("push", FALSE))
    /\ error' = "push"
    /\ pc' = AfterRaiseInLoop
    /\ UNCHANGED <<world, conda_info, cmds, run, prev, next_tmp, workspaces,
                   local_tmp_dir, remote_tmp_dir, local_envs, remote_envs, downloaded, zipped,
                   retryvars, rw, upc>>

\* main.py:304-308: pull
Pull(outcome) ==
    /\ AtItem /\ Decide(Item[2][1], Item[2][2]) = "pull"
    /\ LET remote == Item[2][2]
       IN /\ UpdateCondaEnv(remote[1], None, FALSE, <<remote[2]>>, outcome, 0)
          /\ IF UpdateRaises(remote[1], outcome)
             THEN /\ log' = Append(log, Entry("pull", FALSE))
                  /\ error' = "pull"
                  /\ pc' = AfterRaiseInLoop
             ELSE /\ log' = Append(log, Entry("pull", TRUE))
                  /\ UNCHANGED <<error, pc>>
    /\ UNCHANGED <<run, prev, next_tmp, workspaces, local_tmp_dir, remote_tmp_dir,
                   local_envs, remote_envs, downloaded, zipped, retryvars, rw, upc>>

\* main.py:310-314: the finally clause, and sync_all returns or raises
Finally ==
    /\ pc = "finally" \/ (pc = "loop" /\ Len(log) = Len(zipped))
    /\ workspaces' = workspaces \ {local_tmp_dir, remote_tmp_dir}
    /\ prev' = IF error = "none" THEN "ok" ELSE "failed"
    /\ pc' = "idle"
    /\ UNCHANGED <<world, conda_info, cmds, run, next_tmp, local_tmp_dir,
                   remote_tmp_dir, local_envs, remote_envs, downloaded, zipped, log, error,
                   retryvars, rw, upc>>


\* ------------------------------------------------------------------------
\* Specification of sync_all
\* ------------------------------------------------------------------------

Range(q) == { q[i] : i \in DOMAIN q }

\* the installation paths of the initial states
LocalPaths == { Join(EnvsDir, n) : n \in Names }

\* the objects of the initial states: with the custom attribute (written by
\* an earlier push), or without it (uploaded by other means)
InitObjects ==
    { [Metadata |-> [k \in {MetaKey} |-> IsoFormat(t)], last_modified |-> 0] :
        t \in Times }
    \cup { [Metadata |-> << >>, last_modified |-> t] : t \in S3Times }

InitBuckets ==
    { b \in UNION { [K -> InitObjects] : K \in SUBSET Keys } :
        \A k \in DOMAIN b :
            SplitExt(Basename(k))[2] = YamlExt => b[k].Metadata = << >> }

\* main.py:333, 341: neither --path-filter nor --include-root-env is given
DefaultConfig == path_filter = None /\ include_root = FALSE

SyncIdle ==
    /\ pc = "idle" /\ run = 0 /\ prev = "none" /\ next_tmp = 1
    /\ workspaces = {} /\ local_tmp_dir = None /\ remote_tmp_dir = None
    /\ local_envs = << >> /\ remote_envs = << >> /\ zipped = << >>
    /\ downloaded = {}
    /\ log = << >> /\ error = "none"

RetryIdle ==
    /\ rpc = "idle"
    /\ kwargs = [env_file |-> None, env_path |-> None, env_name |-> None,
                 prune |-> FALSE, update |-> FALSE]
    /\ env_file = Dict(<< >>)
    /\ failed_deps = {} /\ failed_before = {} /\ calls = << >>
    /\ raised = NoError

\* no replace_conda_dependency computation is under observation
RewriteIdle ==
    rw = [data |-> Dict(<< >>), check |-> {}, replace |-> Other(0), out |-> << >>]

\* update_conda_env is not inside its call of _run_conda_provision_retry
UpdateIdle == upc = "idle"

Init ==
    /\ \E S \in SUBSET LocalPaths : installed \in Orders(S)
    /\ history \in [Range(installed) -> Times]
    /\ bucket \in InitBuckets
    /\ tz \in TzOffsets
    /\ DefaultConfig
    /\ conda_info = None /\ cmds = << >>
    /\ SyncIdle
    /\ RetryIdle
    /\ RewriteIdle
    /\ UpdateIdle

Next ==
    \/ ExportCondaEnvs
    \/ ExportCondaEnvsRaises
    \/ DownloadRemoteEnvs
    \/ DownloadRemoteEnvsRaises
    \/ ZipStart
    \/ NoOp
    \/ \E s3_now \in S3Times : Push(s3_now)
    \/ PushRaises
    \/ \E outcome \in {"done", "raised"} : Pull(outcome)
    \/ Finally

Spec == Init /\ [][Next]_vars

\* ------------------------------------------------------------------------
\* Specification of sync_all over buckets that hold other objects too
\* ------------------------------------------------------------------------

TxtExt == <<".", "t", "x", "t">>

\* keys that are no snapshot of the prefix: under another path, under a path
\* that starts with the prefix, under a sub-path of the prefix, and under
\* the prefix with another extension or with none
OtherKeys ==
    { Join(<<"q">>, <<"a">> \o YmlExt),
      Join(<<"p", "p">>, <<"a">> \o YmlExt),
      Join(<<"p", "/", "s">>, <<"a">> \o YmlExt),
      Join(<<"p", "/", "s">>, <<"b">> \o YamlExt),
      Join(S3Path, <<"a">> \o TxtExt),
      Join(S3Path, <<"b">>) }

\* at most MaxKeys objects in the bucket
MaxKeys == 3

InitDownload ==
    /\ \E S \in SUBSET LocalPaths : installed \in Orders(S)
    /\ history \in [Range(installed) -> {0}]
    /\ \E K \in SUBSET (Keys \cup OtherKeys) :
          /\ Cardinality(K) <= MaxKeys
          /\ bucket \in [K -> { [Metadata |-> << >>, last_modified |-> t] :
                                   t \in {0, TicksPerSec} }]
    /\ tz = 0
    /\ DefaultConfig
    /\ conda_info = None /\ cmds = << >>
    /\ SyncIdle
    /\ RetryIdle
    /\ RewriteIdle
    /\ UpdateIdle

SpecDownload == InitDownload /\ [][Next]_vars

\* ------------------------------------------------------------------------
\* Specification of sync_all with a path filter and the root environment
\* ------------------------------------------------------------------------

\* the installation paths: two of them have the base name a
ConfigPaths == LocalPaths \cup { Join(<<"base">>, <<"a">>) }

\* what --path-filter may be: not given, or a regular expression, given by
\* the set of installation paths it matches
PathFilters ==
    { None, << {Join(EnvsDir, <<"a">>)} >>, << {Join(<<"base">>, <<"a">>)} >>,
      << ConfigPaths >> }

\* at most MaxInstalled environments are installed
MaxInstalled == 2

InitConfig ==
    /\ \E S \in SUBSET ConfigPaths :
          /\ Cardinality(S) <= MaxInstalled
          /\ installed \in Orders(S)
    /\ \E h \in [Range(installed) -> Times] :
          history = DictSet(h, RootPrefix, 0)
    /\ \E K \in SUBSET { Join(S3Path, n \o YmlExt) : n \in Names } :
          bucket \in [K -> { [Metadata |-> << >>, last_modified |-> t] :
                                   t \in {0, TicksPerSec} }]
    /\ tz = 0
    /\ path_filter \in PathFilters
    /\ include_root \in BOOLEAN
    /\ conda_info = None /\ cmds = << >>
    /\ SyncIdle
    /\ RetryIdle
    /\ RewriteIdle
    /\ UpdateIdle

NextConfig ==
    \/ Next
    \/ ExportCondaEnvsUnbound

SpecConfig == InitConfig /\ [][NextConfig]_vars

\* ------------------------------------------------------------------------
\* Specification of one _run_conda_provision_retry call
\* ------------------------------------------------------------------------

\* update_conda_env has reached its call of line 198: the lookup of line
\* 185 has filled the cache, and the call is in update mode with the
\* listed path if the environment is listed, else in create mode by name
InitRetry ==
    /\ bucket = << >> /\ tz = 0
    /\ DefaultConfig
    /\ cmds = << >>
    /\ SyncIdle
    /\ rpc = "attempt"
    /\ \E update \in BOOLEAN, prune \in BOOLEAN :
          /\ installed = IF update THEN << Join(EnvsDir, <<"a">>) >> ELSE << >>
          /\ kwargs = [env_file |-> Join(<<"in">>, <<"a">> \o YmlExt),
                       env_path |-> IF update THEN Join(EnvsDir, <<"a">>) ELSE None,
                       env_name |-> <<"a">>, prune |-> prune, update |-> update]
    /\ history = [path \in Range(installed) |-> 0]
    /\ conda_info = <<[envs |-> installed, root_prefix |-> RootPrefix]>>
    /\ env_file \in InitDocs
    /\ failed_deps = {} /\ failed_before = {} /\ calls = << >>
    /\ raised = NoError
    /\ RewriteIdle
    /\ upc = "call"

\* main.py:198-212: _run_conda_provision_retry has returned, and
\* update_conda_env runs to its end
UpdateReturns(last_modified, now) ==
    /\ upc = "call" /\ rpc = "done"
    /\ Provisioned(kwargs, last_modified, now)
    /\ upc' = "returned"
    /\ UNCHANGED <<cmds, syncvars, retryvars, rw>>

\* main.py:198: the exception _run_conda_provision_retry raised leaves
\* update_conda_env, nothing there catching it
UpdatePropagates ==
    /\ upc = "call" /\ rpc = "raised"
    /\ upc' = "raised"
    /\ UNCHANGED <<world, conda_info, cmds, syncvars, retryvars, rw>>

NextRetry ==
    \/ AttemptSucceeds
    \/ AttemptFatal
    \/ \E bad_deps \in SeqsUpTo(DepIds, MaxDeps) : AttemptBadDeps(bad_deps)
    \/ \E last_modified \in {None} \cup { <<t>> : t \in Times }, now \in Times :
          UpdateReturns(last_modified, now)
    \/ UpdatePropagates

SpecRetry == InitRetry /\ [][NextRetry]_vars


\* ------------------------------------------------------------------------
\* Specification of direct update_conda_env calls
\* ------------------------------------------------------------------------

\* update_conda_env is called at most MaxCalls times
MaxCalls == 2

\* a base path a caller may pass
BaseDir == <<"base">>
BasePaths == { Join(BaseDir, n) : n \in Names }

\* the descriptor files a caller may pass
ExportPaths ==
    { Join(<<"in">>, <<"a">> \o YmlExt), Join(<<"in">>, <<"b">> \o YamlExt),
      Join(<<"in">>, <<"a">> \o TxtExt) }

InitUpdate ==
    /\ \E S \in SUBSET (LocalPaths \cup BasePaths) :
          /\ Cardinality(S) <= 2
          /\ installed \in Orders(S)
    /\ \E D \in SUBSET (BasePaths \ Range(installed)) :
          history \in [Range(installed) \cup D -> {0}]
    /\ bucket = << >>
    /\ tz \in TzOffsets
    /\ DefaultConfig
    /\ conda_info = None /\ cmds = << >>
    /\ SyncIdle
    /\ RetryIdle
    /\ RewriteIdle
    /\ UpdateIdle

\* a call of update_conda_env from outside sync_all
UpdateCall(export_path, base_path, prune, last_modified, outcome, now) ==
    /\ Len(cmds) < MaxCalls
    /\ UpdateCondaEnv(export_path, base_path, prune, last_modified, outcome, now)
    /\ error' = IF GetEnvNameForPath(export_path) = None THEN "ValueError"
                ELSE IF outcome = "raised" THEN "CondaError" ELSE "none"
    /\ UNCHANGED <<pc, run, prev, next_tmp, workspaces, local_tmp_dir,
                   remote_tmp_dir, local_envs, remote_envs, downloaded, zipped, log, retryvars, rw, upc>>

NextUpdate ==
    \E export_path \in ExportPaths, base_path \in {None, BaseDir},
       prune \in BOOLEAN, last_modified \in {None} \cup { <<t>> : t \in Times },
       outcome \in {"done", "raised"}, now \in Times :
        UpdateCall(export_path, base_path, prune, last_modified, outcome, now)

SpecUpdate == InitUpdate /\ [][NextUpdate]_vars

\* ------------------------------------------------------------------------
\* Specification of replace_conda_dependency applied again and again
\* ------------------------------------------------------------------------

\* the function is applied at most MaxApplications times to its own result
MaxApplications == 2

\* the strings of the documents, and the scalar nodes: strings and a
\* scalar that is no string (a number)
RewriteStrings == { <<"f", "=", "1">>, <<"f">>, <<"g">> }
ScalarNodes == { Str(s) : s \in RewriteStrings } \cup { Other(1) }

\* documents built from mappings, sequences and scalars: bare scalars, flat
\* sequences, and descriptors (a mapping holding a sequence that ends with a
\* mapping holding a sequence)
RewriteDocs ==
    ScalarNodes
    \cup { Dict(<< >>) }
    \cup { List(q) : q \in SeqsUpTo(ScalarNodes, MaxDeps) }
    \cup { EnvDoc(deps, pip) : deps \in SeqsUpTo(ScalarNodes, MaxDeps),
                               pip \in SeqsUpTo(ScalarNodes, 1) }

InitRewrite ==
    /\ installed = << >> /\ history = << >> /\ bucket = << >> /\ tz = 0
    /\ DefaultConfig
    /\ conda_info = None /\ cmds = << >>
    /\ SyncIdle
    /\ RetryIdle
    /\ UpdateIdle
    /\ \E data \in RewriteDocs, check \in SUBSET RewriteStrings,
          replace \in ScalarNodes :
          rw = [data |-> data, check |-> check, replace |-> replace, out |-> << >>]

\* main.py:49-59 applied to the document, or to the result of the
\* application before
Rewrite ==
    /\ Len(rw.out) < MaxApplications
    /\ LET arg == IF rw.out = << >> THEN rw.data ELSE rw.out[Len(rw.out)]
       IN rw' = [rw EXCEPT !.out = Append(@,
                     replace_conda_dependency(arg, rw.check, rw.replace))]
    /\ UNCHANGED <<world, conda_info, cmds, syncvars, retryvars, upc>>

NextRewrite == Rewrite

SpecRewrite == InitRewrite /\ [][NextRewrite]_vars

\* ------------------------------------------------------------------------
\* Claims about sync_all (checked under Spec)
\* ------------------------------------------------------------------------

\* C1: for every name of the union of the two collections the action taken
\* follows the decision table: push iff local is present and (remote is
\* absent or local.mtime > remote.mtime); pull iff remote is present and
\* (local is absent or local.mtime < remote.mtime); neither iff both are
\* present with equal mtimes; never both.  A run that completes has decided
\* every name of the union.
C1_DecisionTable ==
    /\ \A i \in DOMAIN log :
          LET l == log[i].local
              r == log[i].remote
          IN /\ l = DictGet(local_envs, log[i].name)
             /\ r = DictGet(remote_envs, log[i].name)
             /\ log[i].act \in {"push", "pull", "noop"}
             /\ (log[i].act = "push") <=> (l # None /\ (r = None \/ l[2] > r[2]))
             /\ (log[i].act = "pull") <=> (r # None /\ (l = None \/ l[2] < r[2]))
             /\ (log[i].act = "noop") <=> (l # None /\ r # None /\ l[2] = r[2])
    /\ (pc = "idle" /\ run > 0 /\ prev = "ok")
          => { log[i].name : i \in DOMAIN log } = DOMAIN local_envs \cup DOMAIN remote_envs

\* a run has completed in which one name was left alone on equal mtimes and
\* another was pushed over an older remote snapshot
C1_Witness ==
    /\ pc = "idle" /\ prev = "ok" /\ Len(log) = 2
    /\ \E i, j \in DOMAIN log :
          /\ log[i].act = "noop" /\ log[i].local[2] = log[i].remote[2]
          /\ log[j].act = "push" /\ log[j].remote # None

\* C2: whenever sync_all has exited, by return or by an exception raised at
\* any point, every temporary workspace created during the run is removed.
C2_WorkspacesRemoved == pc = "idle" => workspaces = {}

\* C6: once the push or pull of a name has raised, no push and no pull is
\* executed for a later name, and the error leaves sync_all.
C6_AbortOnFirstFailure ==
    \A i \in DOMAIN log :
        ~log[i].ok => /\ i = Len(log)
                      /\ error # "none"
                      /\ pc \in {"finally", "idle"}
                      /\ pc = "idle" => prev = "failed"

\* the first of two names failed and sync_all has raised
C6_Witness ==
    /\ pc = "idle" /\ prev = "failed"
    /\ Len(zipped) = 2 /\ Len(log) = 1 /\ ~log[1].ok

\* C7: in a run that follows a run that completed, with nothing else having
\* touched the environments or the bucket, no name is pushed or pulled.
C7_IdempotentResync ==
    (pc # "idle" /\ prev = "ok") => \A i \in DOMAIN log : log[i].act = "noop"

\* C8: after the push of name N with mtime T the object <prefix>/<N>.yml
\* carries the custom attribute written from T, and the remote collection
\* built from the bucket gives N the lastModified T.
C8_PushRoundTrip ==
    \A i \in DOMAIN log :
        (log[i].act = "push" /\ log[i].ok) =>
            LET N == log[i].name
                T == log[i].local[2]
                key == Join(S3Path, N \o YmlExt)
                envs == DownloadLoop(ListObjects(DOMAIN bucket), 1, Mkdtemp, << >>)
            IN /\ key \in DOMAIN bucket
               /\ DictGet(bucket[key].Metadata, MetaKey) = IsoFormat(T)
               /\ N \in DOMAIN envs
               /\ envs[N][2] = T

\* a name was pushed, S3's own timestamp of the object differs from the
\* pushed mtime, and the prefix holds a .yaml object of the same name too
C8_Witness ==
    \E i \in DOMAIN log :
        /\ log[i].act = "push" /\ log[i].ok
        /\ LET key == Join(S3Path, log[i].name \o YmlExt)
           IN /\ key \in DOMAIN bucket
              /\ bucket[key].last_modified # log[i].local[2]
        /\ Join(S3Path, log[i].name \o YamlExt) \in DOMAIN bucket

\* C9: the merge yields each name of the union of the two key sets exactly
\* once, no other name, and with each name the pair (local snapshot or
\* None, remote snapshot or None) in that order.
C9_ZipByKey ==
    pc = "loop" =>
        LET union == DOMAIN local_envs \cup DOMAIN remote_envs
        IN /\ Len(zipped) = Cardinality(union)
           /\ \A n \in union : \E i \in DOMAIN zipped : zipped[i][1] = n
           /\ \A i, j \in DOMAIN zipped : zipped[i][1] = zipped[j][1] => i = j
           /\ \A i \in DOMAIN zipped :
                 /\ zipped[i][1] \in union
                 /\ zipped[i][2] = << IF zipped[i][1] \in DOMAIN local_envs
                                      THEN local_envs[zipped[i][1]] ELSE None,
                                      IF zipped[i][1] \in DOMAIN remote_envs
                                      THEN remote_envs[zipped[i][1]] ELSE None >>

\* the merge of overlapping key sets, one name being on one side only
C9_Witness ==
    /\ pc = "loop" /\ Len(zipped) = 2
    /\ DOMAIN local_envs \cap DOMAIN remote_envs # {}
    /\ DOMAIN remote_envs \ DOMAIN local_envs # {}

\* C14: the listing is fetched only when the cache is empty and the cache
\* is cleared after every successful provisioning write, so a filled cache
\* is never a listing fetched before the most recent successful
\* provisioning write: it is the listing as that write left it.
C14_CacheFresh ==
    conda_info # None =>
        conda_info[1] = [envs |-> installed, root_prefix |-> RootPrefix]

\* two pulls in a row have succeeded, the first of them having created an
\* installation: the second looked its name up after the first one's write
C14_Witness ==
    /\ Len(log) = 2 /\ Len(cmds) = 2
    /\ \A i \in DOMAIN log : log[i].act = "pull" /\ log[i].ok
    /\ cmds[1].mode = "create"
    /\ conda_info # None

\* the names a snapshot may have: what stands before the extension of a
\* file name in the bucket, and whole file names
CandidateNames ==
    Names \cup DOMAIN remote_envs
          \cup { k[2] : k \in DOMAIN bucket }
          \cup { SplitExt(k[2])[1] : k \in DOMAIN bucket }

\* C16: the remote collection download_remote_envs builds contains a name N
\* if and only if the bucket has a key whose parent path is the prefix
\* exactly and whose file name is N.yml or N.yaml; objects under other
\* paths (deeper ones too) and with other extensions give no entry and are
\* not downloaded.
C16_RemoteCollection ==
    pc = "zip" =>
        /\ \A N \in CandidateNames :
              N \in DOMAIN remote_envs
                 <=> \E k \in DOMAIN bucket :
                        k[1] = S3Path /\ k[2] \in {N \o YmlExt, N \o YamlExt}
        /\ \A k \in downloaded :
              /\ k \in DOMAIN bucket /\ k[1] = S3Path
              /\ \E N \in CandidateNames : k[2] \in {N \o YmlExt, N \o YamlExt}

\* the bucket holds a snapshot of the prefix next to an object of a
\* sub-path and an object with another extension, and the collection is built
C16_Witness ==
    /\ pc = "zip"
    /\ DOMAIN remote_envs = { <<"b">> } /\ Cardinality(downloaded) = 1
    /\ Join(<<"p", "/", "s">>, <<"a">> \o YmlExt) \in DOMAIN bucket
    /\ Join(S3Path, <<"a">> \o TxtExt) \in DOMAIN bucket

\* ------------------------------------------------------------------------
\* Claims about sync_all with a path filter and the root environment
\* (checked under SpecConfig)
\* ------------------------------------------------------------------------

\* C17: when the root environment is included, get_conda_envs yields, for
\* every installed-environment list (an empty one and one whose entries are
\* all excluded too), every accepted environment in listing order and then
\* the root environment as the last element, and does not raise.
C17_RootListedLast ==
    (include_root /\ run > 0) =>
        /\ error # "UnboundLocalError"
        /\ pc = "download" =>
              local_envs = ExportLoop(AcceptedEnvs(conda_info[1].envs, 1)
                                         \o << <<RootName, RootPrefix>> >>,
                                      1, local_tmp_dir, << >>)

\* C18: an installed environment that the path filter excludes is left
\* untouched by sync_all: no step exports it, issues a provisioning command
\* (create or update) for its installation path or changes the time of its
\* marker file, whatever snapshots the prefix holds.
C18_ExcludedUntouched ==
    [][ \A path \in Range(installed) :
          ~IsEnvAccepted(path) =>
              /\ history'[path] = history[path]
              /\ \A i \in DOMAIN cmds' : cmds'[i].p # path
              /\ \A name \in DOMAIN local_envs' :
                    \/ name = RootName
                    \/ \E q \in Range(installed) :
                          IsEnvAccepted(q) /\ Basename(q) = name
      ]_vars

\* the installation path get_conda_envs took the local snapshot of name
\* from: export_conda_envs keeps, for a name, the last pair yielded with it
\* (main.py:224-229)
ExportedPath(name) ==
    LET pairs == GetCondaEnvs(get_conda_info).pairs
        last == CHOOSE i \in DOMAIN pairs :
                    /\ pairs[i][1] = name
                    /\ \A j \in DOMAIN pairs : pairs[j][1] = name => j <= i
    IN pairs[last][2]

\* C19: when sync_all pulls a name of which a local snapshot exists, the
\* installation path of the provisioning command, which is the path then
\* stamped, is the path whose export and marker time formed that local
\* snapshot, also when two installation paths share a base name.
C19_PullTargetsExportedPath ==
    [][ (AtItem /\ Item[2][1] # None /\ Len(cmds') = Len(cmds) + 1)
            => cmds'[Len(cmds')].p = ExportedPath(Item[1])
      ]_vars

\* ------------------------------------------------------------------------
\* Claims about _run_conda_provision_retry (checked under SpecRetry)
\* ------------------------------------------------------------------------

\* C3: the call ends after at most (number of distinct bare dependency
\* names) + 1 invocations of the provisioning tool.
C3_AttemptsBounded == Len(calls) <= Cardinality(BareNames) + 1

\* every attempt so far failed with a bad_deps list of one identifier whose
\* bare name is the one character c
AllNameOnly(c) ==
    /\ calls # << >>
    /\ \A i \in DOMAIN calls :
          /\ calls[i].kind = "deps"
          /\ Len(calls[i].bad_deps) = 1
          /\ calls[i].bad_deps[1][1] = c
          /\ Len(calls[i].bad_deps[1]) > 1 => calls[i].bad_deps[1][2] = "="

\* C4: when every attempt reports a recoverable failure naming the same
\* single bare dependency, the tool is invoked exactly twice and the
\* recoverable error is then raised; there is no third attempt.
C4_RetryGuard ==
    \A c \in {"f", "g"} :
        AllNameOnly(c) =>
            /\ Len(calls) <= 2
            /\ Len(calls) = 1 => rpc = "attempt"
            /\ Len(calls) = 2 => /\ rpc = "raised"
                                 /\ raised.type = "CondaDependenciesError"
                                 /\ raised.bad_deps = calls[2].bad_deps

\* two failures naming f with different versions, and the call has raised
C4_Witness ==
    /\ Len(calls) = 2 /\ rpc = "raised"
    /\ calls[1] = [kind |-> "deps", bad_deps |-> << <<"f", "=", "1">> >>]
    /\ calls[2] = [kind |-> "deps", bad_deps |-> << <<"f", "=", "2">> >>]

\* C5: a recoverable failure is raised only when a bare name of its
\* bad_deps list was repaired in an earlier attempt of the call.
C5_EscalatesOnlyOnRecurrence ==
    (rpc = "raised" /\ raised.type = "CondaDependenciesError") =>
        \E i \in DOMAIN raised.bad_deps :
            SubSeq(raised.bad_deps[i], 1, FirstEq(raised.bad_deps[i]) - 1)
                \in failed_before

\* C15: a fatal failure of any attempt is raised at once: the attempt that
\* fails leaves the descriptor file as it is and ends the loop with the
\* fatal error; from then on no further attempt is made, the file is not
\* written, and in update_conda_env the cache is not reset (it stays
\* filled) and the marker file is not stamped: the error leaves it.
C15_FatalRaisedAtOnce ==
    [][ /\ (calls' # calls /\ calls'[Len(calls')].kind = "fatal")
             => /\ rpc' = "raised" /\ raised'.type = "CondaError"
                /\ env_file' = env_file
        /\ (calls # << >> /\ calls[Len(calls)].kind = "fatal")
             => /\ calls' = calls /\ cmds' = cmds
                /\ env_file' = env_file
                /\ conda_info' = conda_info /\ conda_info # None
                /\ installed' = installed /\ history' = history
                /\ upc' = "raised"
      ]_vars

\* the second attempt failed fatally after the first one's failure was
\* repaired, and the error has left update_conda_env
C15_Witness ==
    /\ Len(calls) = 2 /\ calls[1].kind = "deps" /\ calls[2].kind = "fatal"
    /\ failed_deps # {}
    /\ rpc = "raised" /\ upc = "raised"

\* C20: when the call gives up because a bare name recurs, the descriptor
\* file is left exactly as it was when the failing attempt ran, also when
\* the bad_deps list names new dependencies before the repeated one; and
\* it stays so once the call has given up.
C20_NoPartialRewrite ==
    [][ /\ (calls' # calls /\ rpc' = "raised") => env_file' = env_file
        /\ rpc = "raised" => env_file' = env_file
      ]_vars

\* the call gave up on a list naming f, new and pinned in the descriptor,
\* before g, repaired in the first attempt
C20_Witness ==
    /\ rpc = "raised" /\ raised.type = "CondaDependenciesError"
    /\ Len(calls) = 2
    /\ calls[1].bad_deps = << <<"g", "=", "1">> >>
    /\ calls[2].bad_deps = << <<"f", "=", "1">>, <<"g", "=", "1">> >>
    /\ env_file.kv["dependencies"].items[1] = Str(<<"f", "=", "1">>)
    /\ <<"f">> \in failed_deps


\* ------------------------------------------------------------------------
\* Claims about update_conda_env (checked under SpecUpdate)
\* ------------------------------------------------------------------------

\* an installation of the environment of descriptor f exists: conda lists a
\* path of that name, or the directory <base_path>/<name> is on disk
InstallationExists(f, base_path) ==
    LET env_name == GetEnvNameForPath(f)
    IN \/ \E i \in DOMAIN installed : Basename(installed[i]) = env_name
       \/ base_path # None /\ Join(base_path, env_name) \in DOMAIN history

\* C10: every provisioning invocation of update_conda_env, with or without a
\* base path, is in update mode if an installation of the environment exists
\* when it is issued, and in create mode if none exists.
C10_ModeMatchesExistence ==
    [][ Len(cmds') = Len(cmds) + 1 =>
          LET cmd == cmds'[Len(cmds')]
          IN (cmd.mode = "update")
                 <=> InstallationExists(cmd.f, IF cmd.p = None THEN None ELSE cmd.p[1])
      ]_vars


\* C11: every provisioning invocation passes the installation path when a
\* path is known and the environment name only when no path is known: no
\* invocation carries both a path and a name, and none carries neither.
C11_TargetArgument ==
    \A i \in DOMAIN cmds : (cmds[i].p = None) # (cmds[i].n = None)

\* C12: the command issued to the provisioning tool carries the prune flag
\* when prune is requested and the invocation is in update mode; when prune
\* is not requested, or the invocation is in create mode, it does not.
C12_PruneFlag ==
    \A i \in DOMAIN cmds :
        cmds[i].prune <=> (kwargs.prune /\ cmds[i].mode = "update")


\* ------------------------------------------------------------------------
\* Claims about replace_conda_dependency (checked under SpecRewrite)
\* ------------------------------------------------------------------------

\* the predicate does not hold of the replacement
CheckFailsOnReplacement == ~(rw.replace.t = "str" /\ rw.replace.s \in rw.check)

RECURSIVE OnlyMatchingChanged(_, _)
\* document o has the shape of document d (the same keys in every mapping,
\* the same length of every sequence), and a node of o differs from the node
\* of d at its place only where that node is a scalar of which the
\* predicate holds
OnlyMatchingChanged(d, o) ==
    IF d.t = "dict"
    THEN /\ o.t = "dict" /\ DOMAIN o.kv = DOMAIN d.kv
         /\ \A k \in DOMAIN d.kv : OnlyMatchingChanged(d.kv[k], o.kv[k])
    ELSE IF d.t = "list"
    THEN /\ o.t = "list" /\ Len(o.items) = Len(d.items)
         /\ \A i \in DOMAIN d.items : OnlyMatchingChanged(d.items[i], o.items[i])
    ELSE o # d => (d.t = "str" /\ d.s \in rw.check)

\* C13: when the predicate does not hold of the replacement, rewriting the
\* result of a rewrite gives that result again; mapping keys and sequence
\* order are preserved and only scalars satisfying the predicate change.
C13_RewriteIdempotent ==
    CheckFailsOnReplacement =>
        /\ \A i \in DOMAIN rw.out : rw.out[i] = rw.out[1]
        /\ rw.out # << >> => OnlyMatchingChanged(rw.data, rw.out[1])

\* a descriptor was rewritten twice: the first rewrite changed a pinned
\* dependency and left another scalar alone
C13_Witness ==
    /\ CheckFailsOnReplacement
    /\ Len(rw.out) = 2 /\ rw.out[1] # rw.data
    /\ rw.data.t = "dict" /\ "dependencies" \in DOMAIN rw.data.kv
    /\ \E i \in DOMAIN rw.data.kv["dependencies"].items :
          /\ rw.data.kv["dependencies"].items[i] = Str(<<"f", "=", "1">>)
          /\ rw.out[1].kv["dependencies"].items[i] = Str(<<"f">>)
    /\ \E i \in DOMAIN rw.data.kv["dependencies"].items :
          /\ rw.data.kv["dependencies"].items[i] = Str(<<"g">>)
          /\ rw.out[1].kv["dependencies"].items[i] = Str(<<"g">>)

=============================================================================
